---- MODULE Spec2Model ----
(***************************************************************************)
(* A model of the rumbex SMB adapter (native/rumbex_smb_native/src/lib.rs).*)
(*                                                                         *)
(* Strings are sequences of one-character strings, so that trimming,       *)
(* splitting, joining and parsing are computed the way the code computes   *)
(* them.  The share is a tree of files and directories kept by the server; *)
(* every call of the protocol client (create_file, read, write,            *)
(* query_directory, query_info, set_file_info) is one atomic step of the   *)
(* calling worker, and the handlers are split at exactly these calls.      *)
(***************************************************************************)
EXTENDS Integers, Sequences, FiniteSets, TLC

\* ------------------------------------------------------------------ bounds

\* Longest payload written by write_file.
MaxData == 2

\* Deepest path the server stores: a rename that would move an object deeper
\* fails the way an over-long name does.
MaxDepth == 2

\* Payloads: <<>>, <<1>>, <<1,2>>, ... (each byte names its own offset).
DataSet == { [i \in 1..n |-> i] : n \in 0..MaxData }

\* Workers (dirty-IO scheduler threads) that may run a handler.
Workers == {"w1", "w2"}

NoWorker == "none"

\* ------------------------------------------------------------- characters

BS == "\\"

FS == "/"

DOT == "."

\* Str("a") etc. are written out as tuples of characters.
ShareStr == <<BS, BS, "h", BS, "s">>

IsSep(c) == c = BS \/ c = FS

RECURSIVE trim_start_matches(_, _)
\* str::trim_start_matches with a set of characters.
trim_start_matches(s, cs) ==
    IF s # <<>> /\ Head(s) \in cs THEN trim_start_matches(Tail(s), cs) ELSE s

RECURSIVE trim_end_matches(_, _)
\* str::trim_end_matches with a set of characters.
trim_end_matches(s, cs) ==
    IF s # <<>> /\ s[Len(s)] \in cs
    THEN trim_end_matches(SubSeq(s, 1, Len(s) - 1), cs)
    ELSE s

\* str::trim_matches(['\\', '/']).
trim_matches(s) == trim_end_matches(trim_start_matches(s, {BS, FS}), {BS, FS})

RECURSIVE SplitOn(_, _)
\* str::split: the pieces of s between the characters of cs (empty pieces kept).
SplitOn(s, cs) ==
    IF \A i \in 1..Len(s) : s[i] \notin cs
    THEN <<s>>
    ELSE LET k == CHOOSE i \in 1..Len(s) :
                     s[i] \in cs /\ \A j \in 1..(i - 1) : s[j] \notin cs
         IN  <<SubSeq(s, 1, k - 1)>> \o SplitOn(SubSeq(s, k + 1, Len(s)), cs)

\* str::replace('/', "\\").
ReplaceSlash(s) == [i \in 1..Len(s) |-> IF s[i] = FS THEN BS ELSE s[i]]

\* format!(r"{}\{}", base.trim_end_matches('\\'), rel)
JoinUnc(base, rel) == trim_end_matches(base, {BS}) \o <<BS>> \o rel

\* The full UNC string the handlers build from a trimmed relative path.
FullUnc(rel) == IF rel = <<>> THEN ShareStr ELSE JoinUnc(ShareStr, rel)

\* UncPath::from_str followed by the client's use of it: the part of the UNC
\* string after \\host\share\ is the share-relative name sent in the request.
UncPathName(full) ==
    IF Len(full) > Len(ShareStr) + 1
    THEN SubSeq(full, Len(ShareStr) + 2, Len(full))
    ELSE <<>>

\* Whether a string, split on either separator, has a ".." segment.
HasDotDot(s) == \E i \in 1..Len(SplitOn(s, {BS, FS})) :
                    SplitOn(s, {BS, FS})[i] = <<DOT, DOT>>

\* --------------------------------------------------------- status codes

\* A u32 status is kept as its eight hexadecimal digits (values 0..15).
STATUS_OBJECT_NAME_NOT_FOUND == <<12, 0, 0, 0, 0, 0, 3, 4>>

STATUS_DELETE_PENDING == <<12, 0, 0, 0, 0, 0, 5, 6>>

STATUS_DIRECTORY_NOT_EMPTY == <<12, 0, 0, 0, 0, 1, 0, 1>>

STATUS_OBJECT_NAME_INVALID == <<12, 0, 0, 0, 0, 0, 3, 3>>

STATUS_OBJECT_NAME_COLLISION == <<12, 0, 0, 0, 0, 0, 3, 5>>

STATUS_OBJECT_PATH_NOT_FOUND == <<12, 0, 0, 0, 0, 0, 3, 10>>

STATUS_FILE_IS_A_DIRECTORY == <<12, 0, 0, 0, 0, 0, 11, 10>>

STATUS_NOT_A_DIRECTORY == <<12, 0, 0, 0, 0, 1, 0, 3>>

STATUS_ACCESS_DENIED == <<12, 0, 0, 0, 0, 0, 2, 2>>

STATUS_SUCCESS == <<0, 0, 0, 0, 0, 0, 0, 0>>

\* A failure of the client that carries no status (connection reset, timeout).
NoStatus == <<>>

HexChars == <<"0", "1", "2", "3", "4", "5", "6", "7", "8", "9",
              "a", "b", "c", "d", "e", "f">>

UpperHexChars == <<"0", "1", "2", "3", "4", "5", "6", "7", "8", "9",
                   "A", "B", "C", "D", "E", "F">>

IsHexChar(c) == \E v \in 1..16 : HexChars[v] = c \/ UpperHexChars[v] = c

HexVal(c) == (CHOOSE v \in 1..16 : HexChars[v] = c \/ UpperHexChars[v] = c) - 1

\* The client's rendering of a failed call: text ending in "(0x<code>)" when
\* the failure carries a status.
ErrDisplay(st) ==
    IF st = NoStatus
    THEN <<"e", "r", "r">>
    ELSE <<"e", "r", "r", " ", "(", "0", "x">>
             \o [i \in 1..8 |-> HexChars[st[i] + 1]] \o <<")">>

NoCode == <<>>

\* s.find("(0x"): the first index of the pattern, 0 when absent.
FindParen0x(s) ==
    IF \E i \in 1..(Len(s) - 2) : s[i] = "(" /\ s[i + 1] = "0" /\ s[i + 2] = "x"
    THEN CHOOSE i \in 1..(Len(s) - 2) :
             /\ s[i] = "(" /\ s[i + 1] = "0" /\ s[i + 2] = "x"
             /\ \A j \in 1..(i - 1) : ~(s[j] = "(" /\ s[j + 1] = "0" /\ s[j + 2] = "x")
    ELSE 0

\* u32::from_str_radix(src, 16): the eight digits of the value, NoCode on
\* error.  One leading "+" is accepted before the digits.
from_str_radix(src) ==
    LET hex == IF src # <<>> /\ Head(src) = "+" THEN Tail(src) ELSE src
        d == trim_start_matches(hex, {"0"})
    IN  IF hex = <<>> \/ (\E i \in 1..Len(hex) : ~IsHexChar(hex[i])) \/ Len(d) > 8
        THEN NoCode
        ELSE [i \in 1..8 |-> IF i <= 8 - Len(d) THEN 0 ELSE HexVal(d[i - (8 - Len(d))])]

\* The status translator: the text after the first "(0x", its trailing ")"
\* characters trimmed, parsed as hexadecimal.
ntstatus_from_err_display(s) ==
    LET start == FindParen0x(s)
    IN  IF start = 0
        THEN NoCode
        ELSE from_str_radix(trim_end_matches(SubSeq(s, start + 3, Len(s)), {")"}))

\* ----------------------------------------------------------- timestamps

\* A u64 is kept as three limbs <<h, m, l>> of radix 10^7, standing for
\* h * 10^14 + m * 10^7 + l, so that every limb fits the checker's integers.
TicksPerSecond == 10000000

U64Max == <<184467, 4407370, 9551615>>

U64Zero == <<0, 0, 0>>

U64One == <<0, 0, 1>>

IsU64(a) ==
    /\ a[1] \in 0..U64Max[1]
    /\ a[2] \in 0..(TicksPerSecond - 1)
    /\ a[3] \in 0..(TicksPerSecond - 1)
    /\ a[1] = U64Max[1] => (a[2] < U64Max[2] \/ (a[2] = U64Max[2] /\ a[3] <= U64Max[3]))

U64Less(a, b) ==
    \/ a[1] < b[1]
    \/ a[1] = b[1] /\ a[2] < b[2]
    \/ a[1] = b[1] /\ a[2] = b[2] /\ a[3] < b[3]

\* a - b for a >= b, limb by limb with borrow.
U64Sub(a, b) ==
    LET l == a[3] - b[3]
        bl == IF l < 0 THEN 1 ELSE 0
        m == a[2] - b[2] - bl
        bm == IF m < 0 THEN 1 ELSE 0
    IN  << a[1] - b[1] - bm,
           IF m < 0 THEN m + TicksPerSecond ELSE m,
           IF l < 0 THEN l + TicksPerSecond ELSE l >>

\* a + b, limb by limb with carry (the callers stay below 2^64).
U64Add(a, b) ==
    LET l == a[3] + b[3]
        cl == IF l >= TicksPerSecond THEN 1 ELSE 0
        m == a[2] + b[2] + cl
        cm == IF m >= TicksPerSecond THEN 1 ELSE 0
    IN  << a[1] + b[1] + cm, m % TicksPerSecond, l % TicksPerSecond >>

\* ticks / 10_000_000: the quotient by the radix drops the lowest limb.
DivTicksPerSecond(a) == << 0, a[1], a[2] >>

\* u64::saturating_sub
saturating_sub(a, b) == IF U64Less(a, b) THEN U64Zero ELSE U64Sub(a, b)

\* u64::wrapping_sub: a - b modulo 2^64.
wrapping_sub(a, b) ==
    IF U64Less(a, b)
    THEN U64Add(U64Sub(U64Max, U64Sub(b, a)), U64One)
    ELSE U64Sub(a, b)

\* const EPOCH_DELTA: u64 = 11_644_473_600
EPOCH_DELTA == << 0, 1164, 4473600 >>

\* Mutant: the subtraction wraps around for ticks before 1970.
filetime_wrapping(ticks) ==
    IF ticks = U64Zero THEN U64Zero
    ELSE wrapping_sub(DivTicksPerSecond(ticks), EPOCH_DELTA)

\* FILETIME (100 ns ticks since 1601-01-01) -> Unix seconds.
filetime_to_unix_seconds(ticks) ==
    IF ticks = U64Zero THEN U64Zero
    ELSE saturating_sub(DivTicksPerSecond(ticks), EPOCH_DELTA)

\* ------------------------------------------------------------ the share

\* The server keeps the share as a map from the paths of the existing objects
\* (sequences of names below the share root) to their nodes.  The root, <<>>,
\* always exists and is a directory.
FileNode(d) == [kind |-> "file", data |-> d]

DirNode == [kind |-> "dir", data |-> <<>>]

EmptyShare == [q \in {} |-> DirNode]

Present(fsx, q) == q = <<>> \/ q \in DOMAIN fsx

KindAt(fsx, q) ==
    IF q = <<>> THEN "dir" ELSE IF q \in DOMAIN fsx THEN fsx[q].kind ELSE "none"

Parent(q) == SubSeq(q, 1, Len(q) - 1)

IsPrefix(a, b) == Len(a) <= Len(b) /\ SubSeq(b, 1, Len(a)) = a

Children(fsx, d) == { q \in DOMAIN fsx : Len(q) = Len(d) + 1 /\ IsPrefix(d, q) }

\* A name the server accepts as one path component.
ValidName(n) ==
    /\ n # <<>>
    /\ n # <<DOT>>
    /\ n # <<DOT, DOT>>
    /\ \A i \in 1..Len(n) : n[i] # FS

\* The server's reading of a share-relative name: components are separated by
\* backslashes only, and every component must be a valid name.
ServerPath(name) ==
    LET parts == IF name = <<>> THEN <<>> ELSE SplitOn(name, {BS})
    IN  [ok |-> \A i \in 1..Len(parts) : ValidName(parts[i]), path |-> parts]

Put(fsx, q, node) == [x \in DOMAIN fsx \cup {q} |-> IF x = q THEN node ELSE fsx[x]]

Remove(fsx, q) == [x \in DOMAIN fsx \ {q} |-> fsx[x]]

\* ------------------------------------------------------------ handles

NoHandle == [open |-> FALSE, path |-> <<>>, doc |-> FALSE, kind |-> "none"]

Handle(q, k, doc) == [open |-> TRUE, path |-> q, doc |-> doc, kind |-> k]

\* The answer of the server to a call: a status, the share and the set of
\* delete-pending paths afterwards, and the kind of the opened object.
Reply(st, fsx, pend, k) == [st |-> st, fs |-> fsx, pending |-> pend, kind |-> k]

Failed(r) == r.st # STATUS_SUCCESS

\* SMB2 CREATE.  disp is the create disposition ("Open", "Create", "OpenIf",
\* "OverwriteIf"), dirOpt the directory option ("any", "dir", "nondir"), doc
\* the delete-on-close option.
ServerCreate(fsx, pend, name, disp, dirOpt, doc) ==
    LET sp == ServerPath(name)
        q == sp.path
        k == KindAt(fsx, q)
        fail(st) == Reply(st, fsx, pend, "none")
    IN  IF ~sp.ok THEN fail(STATUS_OBJECT_NAME_INVALID)
        ELSE IF q = <<>>
        THEN IF disp = "Create" THEN fail(STATUS_OBJECT_NAME_COLLISION)
             ELSE IF dirOpt = "nondir" THEN fail(STATUS_FILE_IS_A_DIRECTORY)
             ELSE IF disp = "OverwriteIf" THEN fail(STATUS_OBJECT_NAME_COLLISION)
             ELSE IF doc THEN fail(STATUS_ACCESS_DENIED)
             ELSE Reply(STATUS_SUCCESS, fsx, pend, "dir")
        ELSE IF KindAt(fsx, Parent(q)) # "dir" THEN fail(STATUS_OBJECT_PATH_NOT_FOUND)
        ELSE IF q \in pend THEN fail(STATUS_DELETE_PENDING)
        ELSE IF k # "none"
        THEN IF disp = "Create" THEN fail(STATUS_OBJECT_NAME_COLLISION)
             ELSE IF k = "dir" /\ dirOpt = "nondir" THEN fail(STATUS_FILE_IS_A_DIRECTORY)
             ELSE IF k = "file" /\ dirOpt = "dir" THEN fail(STATUS_NOT_A_DIRECTORY)
             ELSE IF k = "dir" /\ disp = "OverwriteIf" THEN fail(STATUS_OBJECT_NAME_COLLISION)
             ELSE IF k = "dir" /\ doc /\ Children(fsx, q) # {}
                  THEN fail(STATUS_DIRECTORY_NOT_EMPTY)
             ELSE IF disp = "OverwriteIf"
                  THEN Reply(STATUS_SUCCESS, Put(fsx, q, FileNode(<<>>)), pend, "file")
             ELSE Reply(STATUS_SUCCESS, fsx, pend, k)
        ELSE IF disp = "Open" THEN fail(STATUS_OBJECT_NAME_NOT_FOUND)
        ELSE IF dirOpt = "dir"
             THEN Reply(STATUS_SUCCESS, Put(fsx, q, DirNode), pend, "dir")
        ELSE Reply(STATUS_SUCCESS, Put(fsx, q, FileNode(<<>>)), pend, "file")

\* SMB2 CLOSE of handle h while the handles in others stay open: an object
\* opened delete-on-close (or already delete-pending) goes away with its last
\* handle; a directory that has entries by then stays.
ServerClose(fsx, pend, h, others) ==
    LET q == h.path
        marked == h.doc \/ q \in pend
        shared == \E o \in others : o.open /\ o.path = q
    IN  IF ~h.open \/ ~marked \/ q \notin DOMAIN fsx
        THEN Reply(STATUS_SUCCESS, fsx, pend, "none")
        ELSE IF shared
        THEN Reply(STATUS_SUCCESS, fsx, pend \cup {q}, "none")
        ELSE IF Children(fsx, q) # {}
        THEN Reply(STATUS_SUCCESS, fsx, pend \ {q}, "none")
        ELSE Reply(STATUS_SUCCESS, Remove(fsx, q), pend \ {q}, "none")

\* READ to the end of the file behind a handle.
ServerRead(fsx, h) == IF h.path \in DOMAIN fsx THEN fsx[h.path].data ELSE <<>>

\* WRITE of d at offset 0 of the file behind a handle: bytes beyond d stay.
ServerWrite(fsx, h, d) ==
    LET old == ServerRead(fsx, h)
    IN  Put(fsx, h.path, FileNode(d \o SubSeq(old, Len(d) + 1, Len(old))))

\* Re-rooting of path x when the object at src moves to dst.
Moved(x, src, dst) == IF IsPrefix(src, x) THEN dst \o SubSeq(x, Len(src) + 1, Len(x)) ELSE x

\* SET_INFO FileRenameInformation on the handle h: name is the share-relative
\* new name (root_directory = 0), replace the replace_if_exists flag.
ServerRename(fsx, pend, h, others, name, replace) ==
    LET sp == ServerPath(name)
        src == h.path
        dst == sp.path
        fail(st) == Reply(st, fsx, pend, "none")
        busy(q) == \E o \in others : o.open /\ IsPrefix(q, o.path)
        kept == { x \in DOMAIN fsx : ~IsPrefix(dst, x) \/ IsPrefix(src, x) }
        moved == [y \in { Moved(x, src, dst) : x \in kept } |->
                     fsx[CHOOSE x \in kept : Moved(x, src, dst) = y]]
    IN  IF ~sp.ok \/ dst = <<>> THEN fail(STATUS_OBJECT_NAME_INVALID)
        ELSE IF src \notin DOMAIN fsx THEN fail(STATUS_OBJECT_NAME_NOT_FOUND)
        ELSE IF dst = src THEN Reply(STATUS_SUCCESS, fsx, pend, "none")
        ELSE IF KindAt(fsx, Parent(dst)) # "dir" THEN fail(STATUS_OBJECT_PATH_NOT_FOUND)
        ELSE IF IsPrefix(src, dst) THEN fail(STATUS_ACCESS_DENIED)
        ELSE IF \E x \in kept : Len(Moved(x, src, dst)) > MaxDepth
             THEN fail(STATUS_OBJECT_NAME_INVALID)
        ELSE IF h.kind = "dir" /\ busy(src) THEN fail(STATUS_ACCESS_DENIED)
        ELSE IF dst \in DOMAIN fsx /\ ~replace THEN fail(STATUS_OBJECT_NAME_COLLISION)
        ELSE IF dst \in DOMAIN fsx /\ (fsx[dst].kind = "dir" \/ h.kind = "dir" \/ busy(dst))
             THEN fail(STATUS_ACCESS_DENIED)
        ELSE Reply(STATUS_SUCCESS, moved, pend, "none")

\* QUERY_DIRECTORY "*": the names the server returns, "." and ".." first.
\* Each entry carries its name and the directory bit of its attributes.
DirEntry(n, isDir) == [name |-> n, directory |-> isDir, decoded |-> TRUE]

\* An item of the enumeration the client could not decode.
Undecodable == [name |-> <<>>, directory |-> FALSE, decoded |-> FALSE]

DotEntries == << DirEntry(<<DOT>>, TRUE), DirEntry(<<DOT, DOT>>, TRUE) >>

ChildEntries(fsx, d) ==
    { DirEntry(q[Len(q)], fsx[q].kind = "dir") : q \in Children(fsx, d) }

\* The enumerations the server may answer with: any order of the children.
Enumerations(fsx, d) ==
    LET es == ChildEntries(fsx, d)
        n == Cardinality(es)
    IN  { DotEntries \o e : e \in { f \in [1..n -> es] : \A i, j \in 1..n : f[i] = f[j] => i = j } }

\* The enumerations the client may hand over when items fail to decode: the
\* entries of the directory and the two dot entries in any order, any of
\* them replaced by an undecodable item.
MixedEnumerations(fsx, d) ==
    LET es == ChildEntries(fsx, d) \cup {DotEntries[1], DotEntries[2]}
        n == Cardinality(es)
        orders == { f \in [1..n -> es] : \A i, j \in 1..n : f[i] = f[j] => i = j }
    IN  { [i \in 1..n |-> IF i \in bad THEN Undecodable ELSE f[i]] :
              f \in orders, bad \in SUBSET (1..n) }


\* ------------------------------------------------------------- the state

Conns == {"c1", "c2"}

Ops == {"read_file", "write_file", "list_dir", "stat", "mkdir_p", "mkdir",
        "exists", "rm", "file_stats", "rename"}

VARIABLES
    fs,        \* the share: path -> node
    pending,   \* the delete-pending paths
    handle,    \* worker -> the resource handle its handler holds
    lock,      \* connection -> the worker holding Conn.client's mutex
    poisoned,  \* connection -> whether the mutex is poisoned
    proc,      \* worker -> the handler it runs and where it is
    snap,      \* the share as it was when the running handler was called
    last,      \* the last handler that returned: its call and outcome
    fault,     \* the failure the next protocol call meets, if any
    calc       \* a helper function under evaluation: its input and output

vars == <<fs, pending, handle, lock, poisoned, proc, snap, last, fault, calc>>

\* No failure is due / the next protocol call fails with status st.
NoFault == [on |-> FALSE, st |-> STATUS_SUCCESS]

Fault(st) == [on |-> TRUE, st |-> st]

\* No helper function is under evaluation.
NoCalc == [fn |-> "none"]

\* Outcomes of a handler.  val is the success value.
NoResult == [tag |-> "none", reason |-> "", val |-> <<>>]

Ok(v) == [tag |-> "ok", reason |-> "", val |-> v]

Err(reason) == [tag |-> "error", reason |-> reason, val |-> <<>>]

\* A panic unwinding through the NIF: the call raises.
Raised == [tag |-> "raise", reason |-> "panic", val |-> <<>>]

Idle == [pc |-> "idle", op |-> "", conn |-> "", path |-> <<>>, data |-> <<>>,
         to |-> <<>>, repl |-> FALSE, name |-> <<>>, kind |-> "none",
         segs |-> <<>>, idx |-> 0, acc |-> <<>>, afterPoison |-> FALSE,
         trace |-> <<>>, entries |-> <<>>, result |-> NoResult]

NoLast == [op |-> "", path |-> <<>>, data |-> <<>>, to |-> <<>>, tag |-> "none"]

OtherHandles(w) == { handle[v] : v \in Workers \ {w} }

\* The relative path as each handler trims it.
Rel(op, path) ==
    IF op \in {"read_file", "write_file", "stat"}
    THEN trim_start_matches(path, {BS, FS})
    ELSE trim_matches(path)

\* What a handler returns before it touches the mutex, NoResult if nothing.
EarlyResult(op, rel, toRel) ==
    CASE op \in {"mkdir", "rm"} /\ rel = <<>> -> Err("bad_path")
      [] op = "rename" /\ (rel = <<>> \/ toRel = <<>>) -> Err("bad_path")
      [] op = "mkdir_p" /\ rel = <<>> -> Ok("ok")
      [] op = "exists" /\ rel = <<>> -> Ok("directory")
      [] OTHER -> NoResult

\* The first step of each handler once it holds the lock.
FirstPc(op) ==
    CASE op = "mkdir_p" -> "mkdirp"
      [] op \in {"exists", "rm", "file_stats"} -> "probe"
      [] OTHER -> "open"

\* The program counters at which a protocol call of the handler is in flight.
CreatePcs == {"open", "open2", "probe", "mkdirp"}

HandlePcs == {"read", "write", "query", "query2", "setinfo"}

InFlight(w) == proc[w].pc \in CreatePcs \cup HandlePcs

Logged(pr, w, call, name, st) ==
    [pr EXCEPT !.trace = Append(@, [call |-> call, name |-> name, st |-> st,
                                     locked |-> lock[pr.conn] = w])]

Done(pr, res) == [pr EXCEPT !.pc = "done", !.result = res]

\* MutexGuard dropped (drop(client), or the end of the handler).
Unlocked(w) == [c \in Conns |-> IF lock[c] = w THEN NoWorker ELSE lock[c]]

\* Mutant: no mutual exclusion on the client.
CanAcquireAlways(c) == TRUE

\* Mutex::lock blocks until the mutex is free.
CanAcquire(c) == lock[c] = NoWorker

\* The state after connect, but for the helper under evaluation.
Quiet ==
    /\ fs = EmptyShare
    /\ pending = {}
    /\ handle = [w \in Workers |-> NoHandle]
    /\ lock = [c \in Conns |-> NoWorker]
    /\ poisoned = [c \in Conns |-> FALSE]
    /\ proc = [w \in Workers |-> Idle]
    /\ snap = EmptyShare
    /\ last = NoLast
    /\ fault = NoFault

Init == Quiet /\ calc = NoCalc

\* A NIF is called: the handler trims its path arguments, builds the UNC
\* string and returns at once where the code returns before locking.
Call(w, c, paths, datas, tos, ghost) ==
    /\ proc[w].pc = "idle"
    /\ \E op \in Ops, path \in paths :
       \E d \in (IF op = "write_file" THEN datas ELSE {<<>>}),
          to \in (IF op = "rename" THEN tos ELSE {<<>>}),
          repl \in (IF op = "rename" THEN BOOLEAN ELSE {FALSE}) :
          LET rel == Rel(op, path)
              toRel == trim_matches(to)
              early == EarlyResult(op, rel, toRel)
              pr == [Idle EXCEPT !.op = op, !.conn = c, !.path = path, !.data = d,
                                 !.to = ReplaceSlash(toRel), !.repl = repl,
                                 !.name = UncPathName(FullUnc(rel)),
                                 !.segs = SplitOn(rel, {BS, FS}), !.idx = 1,
                                 !.acc = ShareStr, !.afterPoison = poisoned[c],
                                 !.pc = "lock"]
          IN  proc' = [proc EXCEPT ![w] = IF early.tag = "none" THEN pr ELSE Done(pr, early)]
    /\ snap' = IF ghost THEN fs ELSE snap
    /\ UNCHANGED <<fs, pending, handle, lock, poisoned, last, fault, calc>>

\* Mutant: the poison flag of the mutex is ignored.
IsPoisonedNever(c) == FALSE

\* Whether lock() returns Err(PoisonError).
IsPoisoned(c) == poisoned[c]

\* conn.client.lock(): a poisoned mutex gives "mutex_poisoned".
Acquire(w) ==
    /\ proc[w].pc = "lock"
    /\ CanAcquire(proc[w].conn)
    /\ IF IsPoisoned(proc[w].conn)
       THEN /\ proc' = [proc EXCEPT ![w] = Done(@, Err("mutex_poisoned"))]
            /\ UNCHANGED lock
       ELSE /\ proc' = [proc EXCEPT ![w].pc = FirstPc(proc[w].op)]
            /\ lock' = [lock EXCEPT ![proc[w].conn] = w]
    /\ UNCHANGED <<fs, pending, handle, poisoned, snap, last, fault, calc>>

\* One step of a handler: the worker's new position, the server's reply (the
\* share and the delete-pending set), the handle it now holds, and whether
\* the MutexGuard is dropped by then.
Apply(w, pr, r, h, release) ==
    /\ proc' = [proc EXCEPT ![w] = pr]
    /\ fs' = r.fs
    /\ pending' = r.pending
    /\ handle' = [handle EXCEPT ![w] = h]
    /\ lock' = IF release THEN Unlocked(w) ELSE lock
    /\ fault' = NoFault
    /\ UNCHANGED <<poisoned, snap, last, calc>>

\* drop of the handle h just obtained with reply r (or held since).
Dropped(w, r, h) == ServerClose(r.fs, r.pending, h, OtherHandles(w))

Current == Reply(STATUS_SUCCESS, fs, pending, "none")

\* The reply the handler gets: the server's, unless the call fails on the way.
Served(r) == IF fault.on THEN Reply(fault.st, fs, pending, "none") ELSE r

ReqPath(name) == ServerPath(name).path

\* Mutant: the resource is kept open after the handler returns.
ScopeEndLeaked(h) == h

\* A Resource going out of scope (drop, or the end of the handler): the
\* thread holds no handle any more.
ScopeEnd(h) == NoHandle

\* The value file_stats returns for an absent path.
NotFoundStats == [type |-> "not_found", size |-> 0, nlink |-> 0]

\* ---- read_file

read_file_open(w) ==
    LET pr == proc[w]
        r == Served(ServerCreate(fs, pending, pr.name, "Open", "any", FALSE))
        lg == Logged(pr, w, "create", pr.name, r.st)
        h == Handle(ReqPath(pr.name), r.kind, FALSE)
    IN  /\ pr.pc = "open" /\ pr.op = "read_file"
        /\ IF Failed(r)
           THEN Apply(w, Done(lg, Err("smb_open_failed")), r, NoHandle, TRUE)
           ELSE IF r.kind # "file"
           THEN Apply(w, Done(lg, Err("not_a_file")), Dropped(w, r, h), ScopeEnd(h), TRUE)
           ELSE Apply(w, [lg EXCEPT !.pc = "read"], r, h, TRUE)

read_file_read(w) ==
    LET pr == proc[w]
        r == Served(Current)
        lg == Logged(pr, w, "read", pr.name, r.st)
        buf == ServerRead(fs, handle[w])
        res == IF Failed(r) THEN Err("smb_read_failed") ELSE Ok(buf)
    IN  /\ pr.pc = "read" /\ pr.op = "read_file"
        /\ Apply(w, Done(lg, res), Dropped(w, Current, handle[w]), ScopeEnd(handle[w]), TRUE)

\* ---- write_file

\* Mutant: the file is opened or created, without truncation.
WriteDispositionOpenIf == "OpenIf"

\* FileCreateArgs::make_overwrite
WriteDisposition == "OverwriteIf"

write_file_open(w) ==
    LET pr == proc[w]
        r == Served(ServerCreate(fs, pending, pr.name, WriteDisposition, "any", FALSE))
        lg == Logged(pr, w, "create", pr.name, r.st)
        h == Handle(ReqPath(pr.name), r.kind, FALSE)
    IN  /\ pr.pc = "open" /\ pr.op = "write_file"
        /\ IF Failed(r)
           THEN Apply(w, Done(lg, Err("smb_create_failed")), r, NoHandle, TRUE)
           ELSE IF r.kind # "file"
           THEN Apply(w, Done(lg, Err("not_a_file")), Dropped(w, r, h), ScopeEnd(h), TRUE)
           ELSE Apply(w, [lg EXCEPT !.pc = "write"], r, h, TRUE)

write_file_write(w) ==
    LET pr == proc[w]
        r == Served(Reply(STATUS_SUCCESS, ServerWrite(fs, handle[w], pr.data),
                          pending, "none"))
        lg == Logged(pr, w, "write", pr.name, r.st)
        res == IF Failed(r) THEN Err("smb_write_failed") ELSE Ok("ok")
    IN  /\ pr.pc = "write" /\ pr.op = "write_file"
        /\ Apply(w, Done(lg, res), Dropped(w, r, handle[w]), ScopeEnd(handle[w]), TRUE)

\* ---- list_dir

\* Mutant: items are not checked for decoding errors.
ListOutUnchecked(entries) ==
    LET keep(e) == e.name # <<DOT>> /\ e.name # <<DOT, DOT>>
        kept == SelectSeq(entries, keep)
    IN  [i \in 1..Len(kept) |->
            <<kept[i].name, IF kept[i].directory THEN "directory" ELSE "file">>]

\* The loop over the enumeration: undecodable items and the entries "." and
\* ".." are skipped, every other entry gives (name, kind).
ListOut(entries) ==
    LET keep(e) == e.decoded /\ e.name # <<DOT>> /\ e.name # <<DOT, DOT>>
        kept == SelectSeq(entries, keep)
    IN  [i \in 1..Len(kept) |->
            <<kept[i].name, IF kept[i].directory THEN "directory" ELSE "file">>]

list_dir_open(w) ==
    LET pr == proc[w]
        r == Served(ServerCreate(fs, pending, pr.name, "Open", "any", FALSE))
        lg == Logged(pr, w, "create", pr.name, r.st)
        h == Handle(ReqPath(pr.name), r.kind, FALSE)
    IN  /\ pr.pc = "open" /\ pr.op = "list_dir"
        /\ IF Failed(r)
           THEN Apply(w, Done(lg, Err("smb_open_failed")), r, NoHandle, TRUE)
           ELSE IF r.kind # "dir"
           THEN Apply(w, Done(lg, Err("not_a_directory")), Dropped(w, r, h), ScopeEnd(h), TRUE)
           ELSE Apply(w, [lg EXCEPT !.pc = "query"], r, h, TRUE)

\* query_directory("*") and the loop over its items.  items is the set of
\* enumerations the client may hand over.
list_dir_query(w, items) ==
    LET pr == proc[w]
        r == Served(Current)
        lg == Logged(pr, w, "query_directory", pr.name, r.st)
    IN  /\ pr.pc = "query" /\ pr.op = "list_dir"
        /\ IF Failed(r)
           THEN Apply(w, Done(lg, Err("query_failed")),
                      Dropped(w, Current, handle[w]), ScopeEnd(handle[w]), TRUE)
           ELSE \E entries \in items :
                   Apply(w, Done([lg EXCEPT !.entries = entries], Ok(ListOut(entries))),
                         Dropped(w, Current, handle[w]), ScopeEnd(handle[w]), TRUE)

\* ---- stat (the MutexGuard lives to the end of the handler)

stat_open(w) ==
    LET pr == proc[w]
        r == Served(ServerCreate(fs, pending, pr.name, "Open", "any", FALSE))
        lg == Logged(pr, w, "create", pr.name, r.st)
        h == Handle(ReqPath(pr.name), r.kind, FALSE)
    IN  /\ pr.pc = "open" /\ pr.op = "stat"
        /\ IF Failed(r)
           THEN Apply(w, Done(lg, Err("smb_open_failed")), r, NoHandle, TRUE)
           ELSE IF r.kind = "file"
           THEN Apply(w, [lg EXCEPT !.pc = "read"], r, h, FALSE)
           ELSE Apply(w, Done(lg, Ok(<<0, TRUE>>)), Dropped(w, r, h), ScopeEnd(h), TRUE)

stat_read(w) ==
    LET pr == proc[w]
        r == Served(Current)
        lg == Logged(pr, w, "read", pr.name, r.st)
        buf == ServerRead(fs, handle[w])
        res == IF Failed(r) THEN Err("smb_read_failed") ELSE Ok(<<Len(buf), FALSE>>)
    IN  /\ pr.pc = "read" /\ pr.op = "stat"
        /\ Apply(w, Done(lg, res), Dropped(w, Current, handle[w]), ScopeEnd(handle[w]), TRUE)

\* ---- mkdir_p

\* The segments the loop skips: empty ones and ".".
Skipped(seg) == seg = <<>> \/ seg = <<DOT>>

\* The index of the next segment the loop acts on, Len(segs) + 1 when the
\* loop is over.
NextSeg(segs, idx) ==
    IF \E j \in idx..Len(segs) : ~Skipped(segs[j])
    THEN CHOOSE j \in idx..Len(segs) :
             ~Skipped(segs[j]) /\ \A i \in idx..(j - 1) : Skipped(segs[i])
    ELSE Len(segs) + 1

\* Mutant: the disposition of make_create_new is left in place.
MkdirPDispositionCreate == "Create"

\* args.disposition = CreateDisposition::OpenIf
MkdirPDisposition == "OpenIf"

\* One turn of the loop up to and including its create_file call (OpenIf,
\* directory_file); the handle is a temporary, dropped at once.
mkdir_p_step(w) ==
    LET pr == proc[w]
        j == NextSeg(pr.segs, pr.idx)
        acc == JoinUnc(pr.acc, pr.segs[j])
        name == UncPathName(acc)
        r == Served(ServerCreate(fs, pending, name, MkdirPDisposition, "dir", FALSE))
        lg == Logged(pr, w, "create", name, r.st)
        h == Handle(ReqPath(name), r.kind, FALSE)
    IN  /\ pr.pc = "mkdirp" /\ pr.op = "mkdir_p"
        /\ IF j > Len(pr.segs)
           THEN Apply(w, Done(pr, Ok("ok")), Current, NoHandle, TRUE)
           ELSE IF pr.segs[j] = <<DOT, DOT>>
           THEN Apply(w, Done(pr, Err("bad_segment")), Current, NoHandle, TRUE)
           ELSE IF Failed(r)
           THEN Apply(w, Done(lg, Err("mkdir_failed")), r, NoHandle, TRUE)
           ELSE Apply(w, [lg EXCEPT !.idx = j + 1, !.acc = acc],
                      Dropped(w, r, h), ScopeEnd(h), FALSE)

\* ---- mkdir

\* Mutant: an existing object is opened.
MkdirDispositionOpenIf == "OpenIf"

\* FileCreateArgs::make_create_new: create only if the object does not exist.
MkdirDisposition == "Create"

mkdir_create(w) ==
    LET pr == proc[w]
        r == Served(ServerCreate(fs, pending, pr.name, MkdirDisposition, "dir", FALSE))
        lg == Logged(pr, w, "create", pr.name, r.st)
        h == Handle(ReqPath(pr.name), r.kind, FALSE)
    IN  /\ pr.pc = "open" /\ pr.op = "mkdir"
        /\ IF Failed(r)
           THEN Apply(w, Done(lg, Err("mkdir_failed")), r, NoHandle, TRUE)
           ELSE Apply(w, Done(lg, Ok("ok")), Dropped(w, r, h), ScopeEnd(h), TRUE)

\* ---- the resource kind prober

\* Mutant: the MutexGuard is dropped as soon as the kind is known.
GuardDroppedAfterProbeEarly == TRUE

\* Whether the MutexGuard is dropped between open_for_kind and the open that
\* follows it in rm and file_stats: there is no drop(client) in between.
GuardDroppedAfterProbe == FALSE

\* The reply to the read open of open_for_kind.
ProbeReply(name) == Served(ServerCreate(fs, pending, name, "Open", "any", FALSE))

\* Mutant: only a not-found answer counts as absent; an object whose open
\* fails otherwise is taken for a file.
open_for_kind_strict(name) ==
    LET r == ProbeReply(name)
    IN  IF ~Failed(r) THEN r.kind
        ELSE IF r.st = STATUS_OBJECT_NAME_NOT_FOUND THEN "none" ELSE "file"

\* open_for_kind: "file", "dir", or "none" when the read open fails; the
\* handle is dropped before it returns (it is not delete-on-close, so the
\* share is as before).
open_for_kind(name) ==
    LET r == ProbeReply(name)
    IN  IF Failed(r) THEN "none" ELSE r.kind

\* ---- exists

\* Mutant: the two kinds are swapped.
ExistsAtomSwapped(k) ==
    CASE k = "file" -> "directory"
      [] k = "dir" -> "file"
      [] OTHER -> "not_found"

ExistsAtom(k) ==
    CASE k = "file" -> "file"
      [] k = "dir" -> "directory"
      [] OTHER -> "not_found"

exists_probe(w) ==
    LET pr == proc[w]
        k == open_for_kind(pr.name)
        lg == Logged(pr, w, "create", pr.name, ProbeReply(pr.name).st)
    IN  /\ pr.pc = "probe" /\ pr.op = "exists"
        /\ Apply(w, Done(lg, Ok(ExistsAtom(k))), Current, NoHandle, TRUE)

\* ---- rm

\* Mutant: an absent path is an error.
RmAbsentResultError == Err("not_found")

\* "if already gone -- success"
RmAbsentResult == Ok("ok")

rm_probe(w) ==
    LET pr == proc[w]
        k == open_for_kind(pr.name)
        lg == Logged(pr, w, "create", pr.name, ProbeReply(pr.name).st)
    IN  /\ pr.pc = "probe" /\ pr.op = "rm"
        /\ IF k = "none"
           THEN Apply(w, Done(lg, RmAbsentResult), Current, NoHandle, TRUE)
           ELSE Apply(w, [lg EXCEPT !.pc = "open", !.kind = k], Current, NoHandle,
                      GuardDroppedAfterProbe)

\* Mutant: delete-pending is not taken for success.
RmFailureNoPending(e) ==
    LET code == ntstatus_from_err_display(e)
    IN  IF code = STATUS_OBJECT_NAME_NOT_FOUND
        THEN Ok("ok")
        ELSE IF code = STATUS_DIRECTORY_NOT_EMPTY
        THEN Err("dir_not_empty")
        ELSE Err("rm_failed")

\* Mutant: directory-not-empty is not told apart from other failures.
RmFailureGeneric(e) ==
    LET code == ntstatus_from_err_display(e)
    IN  IF code = STATUS_OBJECT_NAME_NOT_FOUND \/ code = STATUS_DELETE_PENDING
        THEN Ok("ok")
        ELSE Err("rm_failed")

\* The outcome of rm when its delete-on-close open fails with text e.
RmFailure(e) ==
    LET code == ntstatus_from_err_display(e)
    IN  IF code = STATUS_OBJECT_NAME_NOT_FOUND \/ code = STATUS_DELETE_PENDING
        THEN Ok("ok")
        ELSE IF code = STATUS_DIRECTORY_NOT_EMPTY
        THEN Err("dir_not_empty")
        ELSE Err("rm_failed")

DirOptFor(k) == IF k = "dir" THEN "dir" ELSE "nondir"

\* Mutant: the object is opened for delete without delete-on-close.
RmDeleteOnCloseUnset == FALSE

\* CreateOptions::default().with_delete_on_close(true)
RmDeleteOnClose == TRUE

\* The reply to the open of rm with delete access and delete-on-close.
RmOpenReply(pr) ==
    Served(ServerCreate(fs, pending, pr.name, "Open", DirOptFor(pr.kind), RmDeleteOnClose))

rm_open(w) ==
    LET pr == proc[w]
        r == RmOpenReply(pr)
        lg == Logged(pr, w, "create", pr.name, r.st)
        h == Handle(ReqPath(pr.name), r.kind, RmDeleteOnClose)
    IN  /\ pr.pc = "open" /\ pr.op = "rm"
        /\ IF Failed(r)
           THEN Apply(w, Done(lg, RmFailure(ErrDisplay(r.st))), r, NoHandle, TRUE)
           ELSE Apply(w, Done(lg, Ok("ok")), Dropped(w, r, h), ScopeEnd(h), TRUE)

\* ---- rm, one protocol request at a time (the opens and the closes of the
\* two handles are requests of their own, which the server may order among
\* the requests of another Connection)

\* open_for_kind: the read open.
rm_probe_create(w) ==
    LET pr == proc[w]
        r == ProbeReply(pr.name)
        lg == Logged(pr, w, "create", pr.name, r.st)
        h == Handle(ReqPath(pr.name), r.kind, FALSE)
    IN  /\ pr.pc = "probe" /\ pr.op = "rm"
        /\ IF open_for_kind(pr.name) = "none"
           THEN Apply(w, Done(lg, RmAbsentResult), r, NoHandle, TRUE)
           ELSE Apply(w, [lg EXCEPT !.pc = "probe_drop", !.kind = r.kind], r, h, FALSE)

\* open_for_kind: drop(res).
rm_probe_drop(w) ==
    LET pr == proc[w]
    IN  /\ pr.pc = "probe_drop" /\ pr.op = "rm"
        /\ Apply(w, [pr EXCEPT !.pc = "open"], Dropped(w, Current, handle[w]),
                 ScopeEnd(handle[w]), FALSE)

\* The open with delete access and delete-on-close.
rm_delete_create(w) ==
    LET pr == proc[w]
        r == RmOpenReply(pr)
        lg == Logged(pr, w, "create", pr.name, r.st)
        h == Handle(ReqPath(pr.name), r.kind, RmDeleteOnClose)
    IN  /\ pr.pc = "open" /\ pr.op = "rm"
        /\ IF Failed(r)
           THEN Apply(w, Done(lg, RmFailure(ErrDisplay(r.st))), r, NoHandle, TRUE)
           ELSE Apply(w, [lg EXCEPT !.pc = "delete_drop"], r, h, FALSE)

\* drop(handle), then the handler returns ok.
rm_delete_drop(w) ==
    LET pr == proc[w]
    IN  /\ pr.pc = "delete_drop" /\ pr.op = "rm"
        /\ Apply(w, Done(pr, Ok("ok")), Dropped(w, Current, handle[w]),
                 ScopeEnd(handle[w]), TRUE)

\* ---- file_stats

file_stats_probe(w) ==
    LET pr == proc[w]
        k == open_for_kind(pr.name)
        lg == Logged(pr, w, "create", pr.name, ProbeReply(pr.name).st)
    IN  /\ pr.pc = "probe" /\ pr.op = "file_stats"
        /\ IF k = "none"
           THEN Apply(w, Done(lg, Ok(NotFoundStats)), Current, NoHandle, TRUE)
           ELSE Apply(w, [lg EXCEPT !.pc = "open", !.kind = k], Current, NoHandle,
                      GuardDroppedAfterProbe)

file_stats_open(w) ==
    LET pr == proc[w]
        r == Served(ServerCreate(fs, pending, pr.name, "Open", DirOptFor(pr.kind), FALSE))
        lg == Logged(pr, w, "create", pr.name, r.st)
        h == Handle(ReqPath(pr.name), r.kind, FALSE)
    IN  /\ pr.pc = "open" /\ pr.op = "file_stats"
        /\ IF Failed(r)
           THEN Apply(w, Done(lg, Err("smb_open_failed")), r, NoHandle, TRUE)
           ELSE IF r.kind # pr.kind
           THEN Apply(w, Done(lg, Err(IF pr.kind = "file" THEN "not_a_file"
                                      ELSE "not_a_directory")),
                      Dropped(w, r, h), ScopeEnd(h), TRUE)
           ELSE Apply(w, [lg EXCEPT !.pc = "query"], r, h, TRUE)

\* query_info::<FileBasicInformation>
file_stats_query_basic(w) ==
    LET pr == proc[w]
        r == Served(Current)
        lg == Logged(pr, w, "query_info", pr.name, r.st)
    IN  /\ pr.pc = "query" /\ pr.op = "file_stats"
        /\ IF Failed(r)
           THEN Apply(w, Done(lg, Err("query_basic_failed")),
                      Dropped(w, Current, handle[w]), ScopeEnd(handle[w]), TRUE)
           ELSE Apply(w, [lg EXCEPT !.pc = "query2"], Current, handle[w], TRUE)

\* Mutant: the size reported is the allocation size (whole clusters of two
\* bytes) instead of the end of file.
RichStatsAllocated(k, size) ==
    [type |-> IF k = "file" THEN "file" ELSE "directory",
     size |-> 2 * ((size + 1) \div 2), nlink |-> 1]

\* The RichStats map (the four timestamps are not part of the share's state).
RichStats(k, size) ==
    [type |-> IF k = "file" THEN "file" ELSE "directory", size |-> size, nlink |-> 1]

\* query_info::<FileStandardInformation>, then the map is built.
file_stats_query_standard(w) ==
    LET pr == proc[w]
        r == Served(Current)
        lg == Logged(pr, w, "query_info", pr.name, r.st)
        size == Len(ServerRead(fs, handle[w]))
        res == IF Failed(r) THEN Err("query_standard_failed")
               ELSE Ok(RichStats(pr.kind, size))
    IN  /\ pr.pc = "query2" /\ pr.op = "file_stats"
        /\ Apply(w, Done(lg, res), Dropped(w, Current, handle[w]), ScopeEnd(handle[w]), TRUE)

\* ---- rename (the MutexGuard lives to the end of the handler)

\* 1) try as file
rename_open_file(w) ==
    LET pr == proc[w]
        r == Served(ServerCreate(fs, pending, pr.name, "Open", "nondir", FALSE))
        lg == Logged(pr, w, "create", pr.name, r.st)
        h == Handle(ReqPath(pr.name), r.kind, FALSE)
    IN  /\ pr.pc = "open" /\ pr.op = "rename"
        /\ IF Failed(r)
           THEN Apply(w, [lg EXCEPT !.pc = "open2"], r, NoHandle, FALSE)
           ELSE IF r.kind # "file"
           THEN Apply(w, Done(lg, Err("not_a_file_or_dir")), Dropped(w, r, h), ScopeEnd(h), TRUE)
           ELSE Apply(w, [lg EXCEPT !.pc = "setinfo"], r, h, FALSE)

\* 2) otherwise as directory
rename_open_dir(w) ==
    LET pr == proc[w]
        r == Served(ServerCreate(fs, pending, pr.name, "Open", "dir", FALSE))
        lg == Logged(pr, w, "create", pr.name, r.st)
        h == Handle(ReqPath(pr.name), r.kind, FALSE)
    IN  /\ pr.pc = "open2" /\ pr.op = "rename"
        /\ IF Failed(r)
           THEN Apply(w, Done(lg, Err("open_failed")), r, NoHandle, TRUE)
           ELSE IF r.kind # "dir"
           THEN Apply(w, Done(lg, Err("not_a_directory")), Dropped(w, r, h), ScopeEnd(h), TRUE)
           ELSE Apply(w, [lg EXCEPT !.pc = "setinfo"], r, h, FALSE)

\* Mutant: the replace flag is never set.
RenameInfoNoReplace(pr) == [file_name |-> pr.to, replace_if_exists |-> FALSE]

\* Mutant: the replace flag is always set.
RenameInfoReplace(pr) == [file_name |-> pr.to, replace_if_exists |-> TRUE]

\* FileRenameInformation2 { replace_if_exists, root_directory: 0, file_name }
RenameInfo(pr) == [file_name |-> pr.to, replace_if_exists |-> pr.repl]

\* set_file_info(info) on the file or directory handle; the handle is dropped
\* as the handler returns.  Handles of other workers follow a moved object.
rename_set_info(w) ==
    LET pr == proc[w]
        info == RenameInfo(pr)
        h == handle[w]
        r == Served(ServerRename(fs, pending, h, OtherHandles(w), info.file_name,
                                 info.replace_if_exists))
        lg == Logged(pr, w, "set_file_info", pr.name, r.st)
        dst == ReqPath(info.file_name)
        follow(o) == IF ~Failed(r) /\ o.open
                     THEN [o EXCEPT !.path = Moved(@, h.path, dst)] ELSE o
        closed == ServerClose(r.fs, r.pending, follow(h), OtherHandles(w))
    IN  /\ pr.pc = "setinfo" /\ pr.op = "rename"
        /\ proc' = [proc EXCEPT ![w] =
                       Done(lg, IF Failed(r) THEN Err("rename_failed") ELSE Ok("ok"))]
        /\ fs' = closed.fs
        /\ pending' = closed.pending
        /\ handle' = [v \in Workers |-> IF v = w THEN ScopeEnd(h) ELSE follow(handle[v])]
        /\ lock' = Unlocked(w)
        /\ fault' = NoFault
        /\ UNCHANGED <<poisoned, snap, last, calc>>

\* ---- failures of protocol calls

\* The statuses a protocol call may fail with whatever the share holds, and
\* a failure that carries no status.
FaultStatuses ==
    { STATUS_ACCESS_DENIED, STATUS_OBJECT_NAME_NOT_FOUND, STATUS_DELETE_PENDING,
      STATUS_DIRECTORY_NOT_EMPTY, NoStatus }

\* The protocol call worker w is about to make is going to fail.
Inject(w) ==
    /\ InFlight(w)
    /\ ~fault.on
    /\ \E st \in FaultStatuses : fault' = Fault(st)
    /\ UNCHANGED <<fs, pending, handle, lock, poisoned, proc, snap, last, calc>>

\* ---- unexpected failure and return

\* A panic while the MutexGuard is held: unwinding drops the handle and the
\* guard, and the guard's drop poisons the mutex.
Panic(w) ==
    /\ proc[w].pc \in CreatePcs \cup HandlePcs
    /\ lock[proc[w].conn] = w
    /\ poisoned' = [poisoned EXCEPT ![proc[w].conn] = TRUE]
    /\ proc' = [proc EXCEPT ![w] = Done(@, Raised)]
    /\ fs' = Dropped(w, Current, handle[w]).fs
    /\ pending' = Dropped(w, Current, handle[w]).pending
    /\ handle' = [handle EXCEPT ![w] = NoHandle]
    /\ lock' = Unlocked(w)
    /\ UNCHANGED <<snap, last, fault, calc>>

\* What is remembered of a handler that returned: a successful write_file,
\* mkdir, mkdir_p or rm with its arguments, a successful rename with replace
\* of a file with its arguments and the bytes the file held, nothing of any
\* other outcome.
LastOf(pr) ==
    IF pr.result.tag = "ok" /\ pr.op \in {"write_file", "mkdir", "mkdir_p", "rm"}
    THEN [op |-> pr.op, path |-> pr.path, data |-> pr.data, to |-> <<>>, tag |-> "ok"]
    ELSE IF pr.result.tag = "ok" /\ pr.op = "rename" /\ pr.repl
            /\ KindAt(snap, ReqPath(pr.name)) = "file"
    THEN [op |-> "rename", path |-> pr.name, data |-> snap[ReqPath(pr.name)].data,
          to |-> pr.to, tag |-> "ok"]
    ELSE NoLast

\* The NIF returns its term to the caller.
Return(w, ghost) ==
    /\ proc[w].pc = "done"
    /\ proc' = [proc EXCEPT ![w] = Idle]
    /\ last' = IF ghost THEN LastOf(proc[w]) ELSE last
    /\ snap' = EmptyShare
    /\ UNCHANGED <<fs, pending, handle, lock, poisoned, fault, calc>>

\* The steps of the handlers but for the enumeration of list_dir.
HandlerSteps(w) ==
    \/ Acquire(w)
    \/ read_file_open(w)
    \/ read_file_read(w)
    \/ write_file_open(w)
    \/ write_file_write(w)
    \/ list_dir_open(w)
    \/ stat_open(w)
    \/ stat_read(w)
    \/ mkdir_p_step(w)
    \/ mkdir_create(w)
    \/ exists_probe(w)
    \/ rm_probe(w)
    \/ rm_open(w)
    \/ file_stats_probe(w)
    \/ file_stats_open(w)
    \/ file_stats_query_basic(w)
    \/ file_stats_query_standard(w)
    \/ rename_open_file(w)
    \/ rename_open_dir(w)
    \/ rename_set_info(w)

\* The steps of the handlers when every item of an enumeration decodes.
Steps(w) ==
    \/ HandlerSteps(w)
    \/ list_dir_query(w, Enumerations(fs, handle[w].path))

\* ------------------------------------------------------- specifications

\* Relative paths given by the caller in Spec.
SeqPaths == { <<>>, <<"a">>, <<"b">>, <<"a", BS, "b">> }

SeqTos == { <<>>, <<"b">>, <<"a">>, <<"a", FS, "b">> }

\* Spec: one caller at a time on one connection, no unexpected failure.
Next ==
    \/ Call("w1", "c1", SeqPaths, DataSet, SeqTos, TRUE)
    \/ Steps("w1")
    \/ Return("w1", TRUE)

Spec == Init /\ [][Next]_vars

\* SpecPoison: as Spec, and a handler may panic while it holds the lock.
PoisonPaths == { <<>>, <<"a">>, <<"a", BS, "b">> }

PoisonTos == { <<>>, <<"b">> }

NextPoison ==
    \/ Call("w1", "c1", PoisonPaths, {<<1>>}, PoisonTos, FALSE)
    \/ Steps("w1")
    \/ Panic("w1")
    \/ Return("w1", FALSE)

SpecPoison == Init /\ [][NextPoison]_vars

\* SpecConc: two workers run handlers on the same connection.
ConcPaths == { <<"a">> }

ConcTos == { <<"b">> }

NextConc ==
    \E w \in Workers :
        \/ Call(w, "c1", ConcPaths, {<<1>>}, ConcTos, FALSE)
        \/ Steps(w)
        \/ Return(w, FALSE)

SpecConc == Init /\ [][NextConc]_vars

\* SpecPath: one caller, relative paths in the forms a caller may write.
PathForms ==
    { <<"a">>, <<"a", FS, "b">>, <<FS, "a", FS>>, <<DOT, FS, "a">>,
      <<DOT, DOT>>, <<DOT, DOT, BS, "a">>, <<"a", FS, DOT, DOT>>,
      <<"a", BS, DOT, DOT, BS, "b">>, <<"a", FS, DOT, DOT, FS, "b">> }

NextPath ==
    \/ Call("w1", "c1", PathForms, {<<1>>}, {<<"b">>}, TRUE)
    \/ Steps("w1")
    \/ Return("w1", TRUE)

SpecPath == Init /\ [][NextPath]_vars

\* SpecList: one caller; enumerations come in any order and with items
\* that fail to decode.
ListPaths == { <<>>, <<"a">>, <<"b">> }

NextList ==
    \/ Call("w1", "c1", ListPaths, {<<1>>}, {<<"b">>}, FALSE)
    \/ HandlerSteps("w1")
    \/ list_dir_query("w1", MixedEnumerations(fs, handle["w1"].path))
    \/ Return("w1", FALSE)

SpecList == Init /\ [][NextList]_vars

\* SpecTime: filetime_to_unix_seconds applied to two tick values in turn.
TickSamples ==
    { t \in { <<h, m, l>> : h \in {0, 1163, 1164, 1165, 184467},
                             m \in {0, 4407370, 4473599, 4473600, 4473601, 9999999},
                             l \in {0, 1, 9551615, 9999999} } : IsU64(t) }

InitTime ==
    /\ Quiet
    /\ calc \in { [fn |-> "filetime", a |-> a, b |-> b, ra |-> U64Zero, rb |-> U64Zero,
                    pc |-> 0] : a \in TickSamples, b \in TickSamples }

\* file_stats converts the timestamps it was answered one after the other.
ConvertFirst ==
    /\ calc.fn = "filetime" /\ calc.pc = 0
    /\ calc' = [calc EXCEPT !.ra = filetime_to_unix_seconds(calc.a), !.pc = 1]
    /\ UNCHANGED <<fs, pending, handle, lock, poisoned, proc, snap, last, fault>>

ConvertSecond ==
    /\ calc.fn = "filetime" /\ calc.pc = 1
    /\ calc' = [calc EXCEPT !.rb = filetime_to_unix_seconds(calc.b), !.pc = 2]
    /\ UNCHANGED <<fs, pending, handle, lock, poisoned, proc, snap, last, fault>>

NextTime == ConvertFirst \/ ConvertSecond

SpecTime == InitTime /\ [][NextTime]_vars

\* SpecStatus: ntstatus_from_err_display applied to the text of an error.
TextBefore == { <<>>, <<"e", " ">>, <<"(", "0", " ">> }

TextDigits ==
    { <<"C", "0", "0", "0", "0", "0", "3", "4">>,
      <<"c", "0", "0", "0", "0", "1", "0", "1">>,
      <<"5", "6">>, <<"z", "1">>, <<"0">>, <<>> }

TextAfter == { <<>>, <<")">>, <<" ", "x">>, <<" ", "(", "0", "x", "1", ")">> }

ErrorTexts ==
    { b \o <<"(", "0", "x">> \o d \o <<")">> \o a :
          b \in TextBefore, d \in TextDigits, a \in TextAfter }
    \cup { b \o d : b \in TextBefore, d \in TextDigits }

InitStatus ==
    /\ Quiet
    /\ calc \in { [fn |-> "status", text |-> s, out |-> NoCode, pc |-> 0] : s \in ErrorTexts }

\* rm consults the status translator with the text of the error.
Translate ==
    /\ calc.fn = "status" /\ calc.pc = 0
    /\ calc' = [calc EXCEPT !.out = ntstatus_from_err_display(calc.text), !.pc = 1]
    /\ UNCHANGED <<fs, pending, handle, lock, poisoned, proc, snap, last, fault>>

NextStatus == Translate

SpecStatus == InitStatus /\ [][NextStatus]_vars

\* SpecFault: one caller; any protocol call may fail.
FaultPaths == { <<"a">>, <<"a", BS, "b">>, <<"a", FS, DOT, DOT>> }

NextFault ==
    \/ Call("w1", "c1", FaultPaths, {<<1>>}, {<<"b">>}, TRUE)
    \/ Steps("w1")
    \/ Inject("w1")
    \/ Return("w1", TRUE)

SpecFault == Init /\ [][NextFault]_vars

\* SpecRace: two callers, each on a Connection of its own to a share that
\* holds two files, delete them; every open and every close is a request of
\* its own.
RacePaths == { <<"a">>, <<"b">> }

\* Each of the paths is one name below the share root.
RaceShare == [q \in { <<p>> : p \in RacePaths } |-> FileNode(<<1>>)]

ConnOf(w) == IF w = "w1" THEN "c1" ELSE "c2"

InitRace ==
    /\ fs = RaceShare
    /\ pending = {}
    /\ handle = [w \in Workers |-> NoHandle]
    /\ lock = [c \in Conns |-> NoWorker]
    /\ poisoned = [c \in Conns |-> FALSE]
    /\ proc = [w \in Workers |-> Idle]
    /\ snap = EmptyShare
    /\ last = NoLast
    /\ fault = NoFault
    /\ calc = NoCalc

\* rm(conn, path) is called.
CallRm(w) ==
    /\ Call(w, ConnOf(w), RacePaths, {<<>>}, {<<>>}, FALSE)
    /\ proc'[w].op = "rm"

NextRace ==
    \E w \in Workers :
        \/ CallRm(w)
        \/ Acquire(w)
        \/ rm_probe_create(w)
        \/ rm_probe_drop(w)
        \/ rm_delete_create(w)
        \/ rm_delete_drop(w)
        \/ Return(w, FALSE)

SpecRace == InitRace /\ [][NextRace]_vars

\* SpecShare: two callers write, create directories, delete and take the
\* statistics of the same paths; the second runs its handlers on the
\* Connection of the first or on a Connection of its own.
SharePaths == { <<"a">>, <<"a", BS, "b">> }

ShareOps == {"write_file", "mkdir_p", "rm", "file_stats"}

CallShared(w, c) ==
    /\ Call(w, c, SharePaths, {<<1>>}, {<<>>}, FALSE)
    /\ proc'[w].op \in ShareOps

NextShare ==
    \/ CallShared("w1", "c1")
    \/ \E c \in Conns : CallShared("w2", c)
    \/ \E w \in Workers :
          \/ Acquire(w)
          \/ write_file_open(w)
          \/ write_file_write(w)
          \/ mkdir_p_step(w)
          \/ rm_probe(w)
          \/ rm_open(w)
          \/ file_stats_probe(w)
          \/ file_stats_open(w)
          \/ file_stats_query_basic(w)
          \/ file_stats_query_standard(w)
          \/ Return(w, FALSE)

SpecShare == Init /\ [][NextShare]_vars

\* ------------------------------------------------------------- claims

\* The path of the object a handler's request names.
Target(pr) == ReqPath(pr.name)

\* The destination of a rename.
Dest(pr) == ReqPath(pr.to)

Returned(pr, op) == pr.pc = "done" /\ pr.op = op

\* The share differs from old at most by the objects at the paths in qs.
SameExcept(new, old, qs) ==
    /\ DOMAIN new \ qs = DOMAIN old \ qs
    /\ \A y \in DOMAIN old \ qs : new[y] = old[y]

\* C1: a successful write_file(c, p, b) followed on the same connection by
\* read_file(c, p) returns exactly b, whatever p held before.
C1_WriteThenRead ==
    \A w \in Workers :
        (Returned(proc[w], "read_file") /\ last.op = "write_file"
            /\ last.path = proc[w].path)
        => (proc[w].result.tag = "ok" /\ proc[w].result.val = last.data)

C1_Witness ==
    \E w \in Workers :
        /\ Returned(proc[w], "read_file")
        /\ last.op = "write_file" /\ last.path = proc[w].path
        /\ last.data = <<1>>
        /\ proc[w].result.tag = "ok"

\* C5: rm of a non-empty path that is absent from the share, or that the
\* rm just before removed, returns ok and leaves the share as it was.
C5_RmIdempotent ==
    \A w \in Workers :
        (Returned(proc[w], "rm") /\ proc[w].name # <<>>
            /\ (KindAt(snap, Target(proc[w])) = "none"
                \/ (last.op = "rm" /\ last.path = proc[w].path)))
        => (proc[w].result.tag = "ok" /\ fs = snap)

C5_Witness ==
    \E w \in Workers :
        /\ Returned(proc[w], "rm")
        /\ last.op = "rm" /\ last.path = proc[w].path
        /\ proc[w].result.tag = "ok"
        /\ Len(proc[w].trace) = 1

C7_ExistsLifeCycle ==
    \A w \in Workers :
        Returned(proc[w], "exists")
        => /\ proc[w].result.tag = "ok"
           /\ (proc[w].name # <<>> /\ KindAt(fs, Target(proc[w])) = "none")
              => proc[w].result.val = "not_found"
           /\ (last.op = "write_file" /\ last.path = proc[w].path)
              => proc[w].result.val = "file"
           /\ (last.op \in {"mkdir", "mkdir_p"} /\ last.path = proc[w].path)
              => proc[w].result.val = "directory"
           /\ (last.op = "rm" /\ last.path = proc[w].path)
              => proc[w].result.val = "not_found"

C7_Witness ==
    \E w \in Workers :
        /\ Returned(proc[w], "exists")
        /\ last.op = "rm" /\ last.path = proc[w].path
        /\ KindAt(snap, Target(proc[w])) = "none"
        /\ proc[w].result.val = "not_found"

\* The prefixes of a path, the path itself included.
Prefixes(q) == { SubSeq(q, 1, i) : i \in 1..Len(q) }

\* The request name mkdir_p's argument path stands for.
MkdirPName(path) == UncPathName(FullUnc(Rel("mkdir_p", path)))

C9_Mkdir ==
    \A w \in Workers :
        (Returned(proc[w], "mkdir") /\ proc[w].name # <<>>)
        => /\ (KindAt(snap, Target(proc[w])) = "none"
                  /\ KindAt(snap, Parent(Target(proc[w]))) = "dir")
              => (proc[w].result.tag = "ok" /\ fs = Put(snap, Target(proc[w]), DirNode))
           /\ KindAt(snap, Target(proc[w])) # "none"
              => /\ proc[w].result.tag = "error"
                 /\ proc[w].result.reason = "mkdir_failed"
                 /\ fs = snap

C9_Witness ==
    \E w \in Workers :
        /\ Returned(proc[w], "mkdir")
        /\ KindAt(snap, Target(proc[w])) = "file"
        /\ snap[Target(proc[w])].data # <<>>
        /\ proc[w].result.reason = "mkdir_failed"

\* A rename without replace whose source and destination both exist.
NoReplaceOntoExisting(pr) ==
    /\ Returned(pr, "rename")
    /\ ~pr.repl
    /\ pr.result.reason # "bad_path"
    /\ KindAt(snap, Target(pr)) # "none"
    /\ KindAt(snap, Dest(pr)) # "none"

CallsInFlight(c) == { w \in Workers : proc[w].conn = c /\ InFlight(w) }

\* The protocol calls a handler issues through the session while it holds the
\* MutexGuard: every create_file, and the calls on the handle in stat and
\* rename, whose guard lives to the end of the handler.
UnderGuard(w) ==
    \/ proc[w].pc \in CreatePcs
    \/ proc[w].pc \in HandlePcs /\ proc[w].op \in {"stat", "rename"}

\* C2 as stated: at most one protocol call per Connection is in flight, and
\* every protocol call is issued while its handler holds the lock.
C2_Original ==
    /\ \A c \in Conns : Cardinality(CallsInFlight(c)) <= 1
    /\ \A w \in Workers : \A i \in 1..Len(proc[w].trace) : proc[w].trace[i].locked

\* C2 as amended: every open/create call, stat's read and rename's set-info
\* are issued while the handler holds the lock, so at most one of them per
\* Connection is in flight; the read of read_file, the write of write_file,
\* the enumeration of list_dir and the two queries of file_stats are issued
\* after the handler has released the lock.
C2_OpensUnderLock ==
    /\ \A w \in Workers : UnderGuard(w) => lock[proc[w].conn] = w
    /\ \A c \in Conns :
          Cardinality({ w \in Workers : proc[w].conn = c /\ UnderGuard(w) }) <= 1
    /\ \A w \in Workers : \A i \in 1..Len(proc[w].trace) :
          proc[w].trace[i].locked
              <=> (proc[w].trace[i].call = "create" \/ proc[w].op \in {"stat", "rename"})

C2_Witness ==
    \E w, v \in Workers :
        /\ proc[w].op = "read_file" /\ proc[w].pc = "read"
        /\ proc[v].conn = proc[w].conn
        /\ proc[v].pc \in CreatePcs
        /\ lock[proc[v].conn] = v

\* C3: a relative path with a ".." segment is rejected with a bad-path
\* failure by every handler before any protocol call, and no name passed to
\* the protocol client has a ".." segment.
C3_DotDotRejected ==
    \A w \in Workers :
        /\ (proc[w].pc # "idle" /\ HasDotDot(proc[w].path))
           => /\ proc[w].trace = <<>>
              /\ proc[w].pc = "done"
                 => /\ proc[w].result.tag = "error"
                    /\ proc[w].result.reason \in {"bad_path", "bad_segment"}
        /\ \A i \in 1..Len(proc[w].trace) : ~HasDotDot(proc[w].trace[i].name)

\* What a handler called on a poisoned Connection returns without locking.
EarlyOf(pr) == EarlyResult(pr.op, Rel(pr.op, pr.path), pr.to)

\* C4 as stated: every handler called once the lock is poisoned fails with
\* mutex_poisoned, whatever its kind and its path.
C4_Original ==
    \A w \in Workers :
        (proc[w].pc = "done" /\ proc[w].afterPoison)
        => (proc[w].result.tag = "error" /\ proc[w].result.reason = "mutex_poisoned")

C4_AfterPoison ==
    \A w \in Workers :
        (proc[w].pc = "done" /\ proc[w].afterPoison)
        => /\ proc[w].trace = <<>>
           /\ IF EarlyOf(proc[w]).tag = "none"
              THEN /\ proc[w].result.tag = "error"
                   /\ proc[w].result.reason = "mutex_poisoned"
              ELSE /\ proc[w].result.tag = EarlyOf(proc[w]).tag
                   /\ proc[w].result.reason = EarlyOf(proc[w]).reason

\* C4 as amended: once the lock of a Connection is poisoned, every handler
\* called on it that gets as far as locking fails with mutex_poisoned,
\* returns no success value and issues no protocol call; the handlers that
\* return before locking keep their outcome (exists and mkdir_p of an empty
\* path succeed, mkdir, rm and rename of an empty path fail with bad_path);
\* the poisoned state is never left.
C4_PoisonedForever ==
    /\ []C4_AfterPoison
    /\ [][\A c \in Conns : poisoned[c] => poisoned'[c]]_vars

C4_Witness ==
    \E w \in Workers :
        /\ proc[w].pc = "done" /\ proc[w].afterPoison
        /\ proc[w].op = "exists"
        /\ proc[w].result.reason = "mutex_poisoned"

\* A rename with replace of an existing file onto a name that is free or
\* held by a file.
ReplaceOfFile(pr) ==
    /\ Returned(pr, "rename")
    /\ pr.repl
    /\ pr.result.reason # "bad_path"
    /\ KindAt(snap, Target(pr)) = "file"
    /\ KindAt(snap, Dest(pr)) \in {"none", "file"}

\* The share after the file at src has been moved to dst.
AfterMove(old, src, dst) ==
    [y \in (DOMAIN old \ {src}) \cup {dst} |-> IF y = dst THEN old[src] ELSE old[y]]

\* What exists and read_file answer right after such a rename.
AfterReplaceOfFile(pr) ==
    /\ (Returned(pr, "exists") /\ last.op = "rename" /\ Target(pr) = ReqPath(last.path))
       => pr.result.val = "not_found"
    /\ (Returned(pr, "exists") /\ last.op = "rename" /\ Target(pr) = ReqPath(last.to))
       => pr.result.val = "file"
    /\ (Returned(pr, "read_file") /\ last.op = "rename" /\ Target(pr) = ReqPath(last.to))
       => (pr.result.tag = "ok" /\ pr.result.val = last.data)

\* C11 as stated: rename(c, from, to, true) of an existing file succeeds
\* whether `to` is free or a file; afterwards exists(from) is not_found,
\* exists(to) is file and read_file(to) returns the bytes `from` held.
C11_Original ==
    \A w \in Workers :
        /\ ReplaceOfFile(proc[w])
           => /\ proc[w].result.tag = "ok"
              /\ fs = AfterMove(snap, Target(proc[w]), Dest(proc[w]))
        /\ AfterReplaceOfFile(proc[w])

\* C11 as amended: the same, for a name `to` other than `from` whose parent
\* directory exists.
C11_RenameReplace ==
    \A w \in Workers :
        /\ (ReplaceOfFile(proc[w]) /\ Dest(proc[w]) # Target(proc[w])
               /\ KindAt(snap, Parent(Dest(proc[w]))) = "dir")
           => /\ proc[w].result.tag = "ok"
              /\ fs = AfterMove(snap, Target(proc[w]), Dest(proc[w]))
        /\ (last.op = "rename" /\ ReqPath(last.to) # ReqPath(last.path))
           => AfterReplaceOfFile(proc[w])

C11_Witness ==
    \E w \in Workers :
        /\ Returned(proc[w], "read_file")
        /\ last.op = "rename" /\ Target(proc[w]) = ReqPath(last.to)
        /\ ReqPath(last.to) # ReqPath(last.path)
        /\ last.data = <<1, 2>>
        /\ proc[w].result.tag = "ok"

\* C12: file_stats(c, p) returns the success-shaped not_found, never an
\* error, when p is absent; when p is present it returns a record whose type
\* is the kind of the object, and for a file just written with L bytes the
\* size of the record is L.
C12_FileStats ==
    \A w \in Workers :
        Returned(proc[w], "file_stats")
        => /\ proc[w].result.tag = "ok"
           /\ KindAt(snap, Target(proc[w])) = "none"
              => proc[w].result.val = NotFoundStats
           /\ KindAt(snap, Target(proc[w])) = "file"
              => /\ proc[w].result.val.type = "file"
                 /\ proc[w].result.val.size = Len(snap[Target(proc[w])].data)
           /\ KindAt(snap, Target(proc[w])) = "dir"
              => proc[w].result.val.type = "directory"
           /\ (last.op = "write_file" /\ last.path = proc[w].path)
              => /\ proc[w].result.val.type = "file"
                 /\ proc[w].result.val.size = Len(last.data)

C12_Witness ==
    \E w \in Workers :
        /\ Returned(proc[w], "file_stats")
        /\ last.op = "write_file" /\ last.path = proc[w].path
        /\ Len(last.data) = 1
        /\ proc[w].result.val.size = 1

\* The positions of an enumeration that list_dir is to report.
Survivors(es) ==
    { i \in 1..Len(es) : es[i].decoded /\ es[i].name \notin {<<DOT>>, <<DOT, DOT>>} }

\* C13: whatever enumeration the client hands over, in any order and with
\* any items undecodable, list_dir succeeds and returns no entry named "."
\* or "..", and every other decodable entry once, in the order of the
\* enumeration, as a directory iff its directory bit is set.
C13_ListDir ==
    \A w \in Workers :
        (Returned(proc[w], "list_dir") /\ Len(proc[w].trace) = 2)
        => LET es == proc[w].entries
               out == proc[w].result.val
               rank(i) == Cardinality({ j \in Survivors(es) : j <= i })
           IN  /\ proc[w].result.tag = "ok"
               /\ Len(out) = Cardinality(Survivors(es))
               /\ \A k \in 1..Len(out) : out[k][1] \notin {<<DOT>>, <<DOT, DOT>>}
               /\ \A i \in Survivors(es) :
                     /\ out[rank(i)][1] = es[i].name
                     /\ out[rank(i)][2] = "directory" <=> es[i].directory

C13_Witness ==
    \E w \in Workers :
        /\ Returned(proc[w], "list_dir")
        /\ Len(proc[w].entries) = 4
        /\ ~proc[w].entries[1].decoded
        /\ proc[w].entries[2].name = <<DOT, DOT>>
        /\ proc[w].entries[3].decoded /\ proc[w].entries[3].directory
        /\ ~proc[w].entries[4].decoded
        /\ Len(proc[w].result.val) = 1

\* 116444736000000000 ticks: 1970-01-01T00:00:00Z.
UnixEpochTicks == << 1164, 4473600, 0 >>

\* s * 10^7 for s below 2^64 / 10^7.
SecondsToTicks(s) == << s[2], s[3], 0 >>

\* r is floor(t / 10^7) - 11644473600 when that is not negative, 0 otherwise:
\* stated with products and sums only.
IsUnixSeconds(t, r) ==
    IF U64Less(t, UnixEpochTicks)
    THEN r = U64Zero
    ELSE LET lo == SecondsToTicks(U64Add(r, EPOCH_DELTA))
         IN  /\ ~U64Less(t, lo)
             /\ U64Less(U64Sub(t, lo), << 0, 1, 0 >>)

\* C14: tick 0 gives 0, the ticks of 1970-01-01 give 0, one second more
\* gives 1; for every tick value t the result is floor(t / 10^7) -
\* 11644473600 when that is non-negative and 0 otherwise; the result does
\* not decrease when t grows.
C14_Filetime ==
    (calc.fn = "filetime" /\ calc.pc = 2)
    => /\ IsUnixSeconds(calc.a, calc.ra)
       /\ IsUnixSeconds(calc.b, calc.rb)
       /\ calc.a = U64Zero => calc.ra = U64Zero
       /\ calc.a = UnixEpochTicks => calc.ra = U64Zero
       /\ calc.a = << 1164, 4473601, 0 >> => calc.ra = U64One
       /\ ~U64Less(calc.b, calc.a) => ~U64Less(calc.rb, calc.ra)

C14_Witness ==
    /\ calc.fn = "filetime" /\ calc.pc = 2
    /\ calc.a = << 1164, 4473599, 9999999 >>
    /\ calc.b = << 1164, 4473601, 0 >>
    /\ calc.ra = U64Zero
    /\ calc.rb = U64One

\* C15: mkdir_p of a path with a ".." segment, wherever the segment is,
\* fails with the bad-path error without having issued a create request,
\* and the share is as it was.
C15_MkdirPRejectsFirst ==
    \A w \in Workers :
        (proc[w].op = "mkdir_p" /\ HasDotDot(proc[w].path))
        => /\ proc[w].trace = <<>>
           /\ fs = snap
           /\ proc[w].pc = "done"
              => /\ proc[w].result.tag = "error"
                 /\ proc[w].result.reason = "bad_segment"

\* The share-relative name the path resolver of the specification gives:
\* separators trimmed, split on either separator, empty and "." segments
\* dropped, the rest joined with single backslashes.
RECURSIVE JoinSegments(_)
JoinSegments(segs) ==
    IF segs = <<>> THEN <<>>
    ELSE IF Len(segs) = 1 THEN segs[1]
    ELSE segs[1] \o <<BS>> \o JoinSegments(Tail(segs))

CanonicalName(path) ==
    LET keep(seg) == seg # <<>> /\ seg # <<DOT>>
    IN  JoinSegments(SelectSeq(SplitOn(trim_matches(path), {BS, FS}), keep))

\* C16: every handler names, in its requests, the canonical remote path of
\* its argument, so that arguments differing in separators, doubled or
\* trailing separators or "." segments name the same object.
C16_CanonicalPath ==
    \A w \in Workers :
        (proc[w].trace # <<>> /\ ~HasDotDot(proc[w].path))
        => IF proc[w].op = "mkdir_p"
           THEN (proc[w].pc = "done" /\ proc[w].result.tag = "ok")
                => proc[w].trace[Len(proc[w].trace)].name = CanonicalName(proc[w].path)
           ELSE proc[w].trace[1].name = CanonicalName(proc[w].path)

\* The code the text carries according to the specification: the digits
\* between the first "(0x" and the next ")".
CodeUpToParen(s) ==
    LET start == FindParen0x(s)
        rest == SubSeq(s, start + 3, Len(s))
        digits == SplitOn(rest, {")"})[1]
    IN  IF start = 0 \/ (\A i \in 1..Len(rest) : rest[i] # ")")
           \/ (\E i \in 1..Len(digits) : ~IsHexChar(digits[i]))
        THEN NoCode
        ELSE from_str_radix(digits)

\* C17: the status extractor returns the code written between the first
\* "(0x" and the next ")", whatever precedes the pattern or follows the
\* ")", and no code when there is no "(0x" or the digits are not
\* hexadecimal.
C17_Extracts ==
    (calc.fn = "status" /\ calc.pc = 1)
    => calc.out = CodeUpToParen(calc.text)

\* The positions of the protocol calls of a handler that failed.
FailedCalls(pr) == { i \in 1..Len(pr.trace) : pr.trace[i].st # STATUS_SUCCESS }

\* The outcome of rm follows the status of its failed delete-on-close open.
RmByStatus(pr) ==
    (Returned(pr, "rm") /\ Len(pr.trace) = 2 /\ 2 \in FailedCalls(pr))
    => LET st == pr.trace[2].st
       IN  IF st \in {STATUS_OBJECT_NAME_NOT_FOUND, STATUS_DELETE_PENDING}
           THEN pr.result.tag = "ok"
           ELSE IF st = STATUS_DIRECTORY_NOT_EMPTY
           THEN pr.result.tag = "error" /\ pr.result.reason = "dir_not_empty"
           ELSE pr.result.tag = "error" /\ pr.result.reason = "rm_failed"

\* The operations that are said to pass every failure through.
PassThroughOps ==
    {"read_file", "write_file", "list_dir", "stat", "file_stats", "mkdir", "mkdir_p",
     "rename"}

C19_ProbeFailureIsAbsent ==
    \A w \in Workers :
        (proc[w].pc = "done" /\ proc[w].op \in {"exists", "file_stats", "rm"}
            /\ 1 \in FailedCalls(proc[w]))
        => /\ Len(proc[w].trace) = 1
           /\ fs = snap
           /\ proc[w].result.tag = "ok"
           /\ proc[w].op = "exists" => proc[w].result.val = "not_found"
           /\ proc[w].op = "file_stats" => proc[w].result.val = NotFoundStats

C19_Witness ==
    \E w \in Workers :
        /\ Returned(proc[w], "rm")
        /\ proc[w].trace[1].st = STATUS_ACCESS_DENIED
        /\ KindAt(snap, Target(proc[w])) = "file"
        /\ KindAt(fs, Target(proc[w])) = "file"
        /\ proc[w].result.tag = "ok"

\* C20: a worker that runs no handler, waits for the lock or has returned
\* holds no open handle, on every exit path; and no handle is held when a
\* handler issues an open (the probe handle is released by then).
C20_NoHandleOutlives ==
    \A w \in Workers :
        /\ proc[w].pc \in {"idle", "lock", "done"} => ~handle[w].open
        /\ proc[w].pc \in CreatePcs => ~handle[w].open

C20_Witness ==
    \E w \in Workers :
        /\ Returned(proc[w], "read_file")
        /\ Len(proc[w].trace) = 2
        /\ proc[w].trace[2].st = STATUS_ACCESS_DENIED
        /\ proc[w].result.reason = "smb_read_failed"
        /\ ~handle[w].open

\* Both workers have returned from rm of the same path.
BothRemoved(p) ==
    \A w \in Workers : Returned(proc[w], "rm") /\ proc[w].path = p

\* What a call of rm saw: its probe open failed, or its delete-on-close open
\* was answered not-found or delete-pending, or it opened the object.
RmSaw(pr) ==
    IF Len(pr.trace) = 1 THEN "absent"
    ELSE IF pr.trace[2].st = STATUS_SUCCESS THEN "opened"
    ELSE IF pr.trace[2].st \in {STATUS_OBJECT_NAME_NOT_FOUND, STATUS_DELETE_PENDING}
    THEN "gone"
    ELSE "failed"

Between(w) ==
    \/ proc[w].op \in {"rm", "file_stats"} /\ proc[w].pc = "open"
    \/ /\ proc[w].op = "mkdir_p" /\ proc[w].pc = "mkdirp"
       /\ proc[w].trace # <<>>
       /\ NextSeg(proc[w].segs, proc[w].idx) <= Len(proc[w].segs)

\* rm and file_stats hold the lock from the probe to the open that follows,
\* mkdir_p while it creates its prefixes.
HeldThrough ==
    \A w \in Workers :
        (\/ proc[w].op \in {"rm", "file_stats"} /\ proc[w].pc \in {"probe", "open"}
         \/ proc[w].op = "mkdir_p" /\ proc[w].pc = "mkdirp")
        => lock[proc[w].conn] = w

\* What the server holds at path q: kind "none" if nothing.
ObjectAt(fsx, pend, q) ==
    [kind |-> KindAt(fsx, q),
     data |-> IF q \in DOMAIN fsx THEN fsx[q].data ELSE <<>>,
     pending |-> q \in pend]

\* Worker v, on the Connection of w, issues a protocol call in this step.
CallsBeside(v, w) ==
    /\ v # w
    /\ proc[v].conn = proc[w].conn
    /\ Len(proc'[v].trace) > Len(proc[v].trace)

\* A worker on another Connection than that of w takes this step.
OtherConnectionSteps(w) ==
    \E v \in Workers \ {w} :
        /\ proc'[v] # proc[v]
        /\ proc[v].conn \in Conns \ {proc[w].conn}

\* C22 as stated: rm and file_stats hold the lock from the probe through the
\* open, mkdir_p across its prefixes; no protocol call of another operation
\* on the same Connection is ordered between these steps, and the object of
\* rm or file_stats changes between probe and open only in a step of an
\* operation on another Connection.
C22_Original ==
    /\ []HeldThrough
    /\ [][\A w \in Workers : Between(w) =>
             /\ \A v \in Workers : ~CallsBeside(v, w)
             /\ (/\ proc[w].op \in {"rm", "file_stats"}
                 /\ proc'[w] = proc[w]
                 /\ ObjectAt(fs', pending', ReqPath(proc[w].name))
                        # ObjectAt(fs, pending, ReqPath(proc[w].name)))
                => OtherConnectionSteps(w)]_vars

\* C22 as amended: rm and file_stats hold the lock from the probe through
\* the open, mkdir_p across its prefixes; between these steps another
\* operation on the same Connection issues no call under the lock (no
\* open/create, no read of stat, no set-info of rename), only calls on a
\* handle it holds after it released the lock (the write of write_file, the
\* queries of file_stats, ...), which may change the content of the object;
\* whether the object of rm or file_stats exists, its kind and whether it is
\* delete-pending change between probe and open only in a step of an
\* operation on another Connection, or when a handle is closed on an object
\* that was delete-pending already.
C22_ProbeActUnderLock ==
    /\ []HeldThrough
    /\ [][\A w \in Workers : Between(w) =>
             /\ \A v \in Workers :
                    CallsBeside(v, w)
                    => (proc[v].pc \in HandlePcs /\ ~UnderGuard(v) /\ lock[proc[v].conn] = w)
             /\ (/\ proc[w].op \in {"rm", "file_stats"}
                 /\ proc'[w] = proc[w]
                 /\ [ObjectAt(fs', pending', ReqPath(proc[w].name)) EXCEPT !.data = <<>>]
                        # [ObjectAt(fs, pending, ReqPath(proc[w].name)) EXCEPT !.data = <<>>])
                => (OtherConnectionSteps(w) \/ ReqPath(proc[w].name) \in pending)]_vars

\* w1 has probed a in file_stats and holds the lock for the open, while the
\* write of a write_file of w2 on the same Connection and the same path,
\* issued on its handle without the lock, is in flight.
C22_Witness ==
    /\ proc["w1"].op = "file_stats" /\ Between("w1")
    /\ lock[proc["w1"].conn] = "w1"
    /\ proc["w2"].conn = proc["w1"].conn
    /\ proc["w2"].op = "write_file" /\ proc["w2"].pc = "write"
    /\ proc["w2"].name = proc["w1"].name
    /\ handle["w2"].open

====
